---- MODULE Spec2Model ----
(***************************************************************************)
(* helpers_jpeg.py: read_structure() splits a JPEG byte string into its    *)
(* segments, mosh_jpeg_data() corrupts some of them with flipbits().       *)
(*                                                                         *)
(* Bytes are the integers 0..255.  A Python bytes object is a sequence;    *)
(* Python index k is TLA+ index k+1.  The description string of a yielded  *)
(* tuple is not modelled (nothing reads it).                               *)
(***************************************************************************)
EXTENDS Integers, Sequences, FiniteSets, TLC

VARIABLES
    jpeg_data,          \* read_structure: the buffer being scanned
    debug,              \* read_structure: the debug parameter
    i,                  \* read_structure: the scan cursor
    segs,               \* the tuples yielded so far, each with the cursor it was read at
    pc,                 \* read_structure: "scan", "end", "break" or "IndexError"
    typ, qt, im, validate, validate_maxtries,   \* mosh_jpeg_data: parameters
    tries,              \* mosh_jpeg_data: remaining attempts
    ret,                \* mosh_jpeg_data: the list of segments kept, with their offsets
    retdata,            \* mosh_jpeg_data: the joined candidate
    mpc,                \* mosh_jpeg_data: position
    fl,                 \* flipbits: its frame (arguments and locals) while it runs
    decoded             \* how often Image.open was called

scanvars == <<jpeg_data, debug, i, segs, pc>>
moshvars == <<typ, qt, im, validate, validate_maxtries, tries, ret, retdata, mpc, fl, decoded>>
vars == <<jpeg_data, debug, i, segs, pc,
          typ, qt, im, validate, validate_maxtries, tries, ret, retdata, mpc, fl, decoded>>

-----------------------------------------------------------------------------
(* Marker bytes *)
SOI == 216
EOI == 217
SOS == 218
DQT == 219
APP0 == 224
APP1 == 225
APP15 == 239
SOF0 == 192
RST0 == 208
RST7 == 215
JP2First == 48
JP2Last == 63
DRI == 221
DRISize == 6
MarkerSize == 2
FF == 255

Min(a, b) == IF a < b THEN a ELSE b

(* Python d[a:b] for 0 <= a *)
Slice(d, a, b) == SubSeq(d, a + 1, Min(b, Len(d)))

(* Python d[k] for an index the caller knows to be in range *)
At(d, k) == d[k + 1]

RECURSIVE Concat(_)
Concat(ss) == IF ss = <<>> THEN <<>> ELSE Head(ss) \o Concat(Tail(ss))

(* jpeg_data.endswith(b'\xff\xd9') *)
EndsWithEOI(d) == Len(d) >= 2 /\ d[Len(d) - 1] = FF /\ d[Len(d)] = EOI

(* the markers of the first if-chain whose size is two bytes *)
IsFixed2(m) ==
    \/ m = SOI
    \/ m = EOI
    \/ (m >= RST0 /\ m <= RST7)
    \/ (m >= JP2First /\ m <= JP2Last)

(* (jpeg_data[k]<<8) + jpeg_data[k+1] *)
BE16(d, k) == At(d, k) * 256 + At(d, k + 1)

(* The highest index the Start-Of-Scan branch subscripts, given that index
   at+4 exists: jpeg_data[at+4] itself, or the last htab read of the loop. *)
SOSLastRead(d, at) ==
    LET num_components == At(d, at + 4)
    IN IF num_components = 0 THEN at + 4 ELSE at + 4 + 2 * (num_components - 1) + 1

(* the payload slice the length-prefixed branch computes (read by the debug code) *)
Payload(d, at) == Slice(d, at + 4, at + 2 + BE16(d, at + 2))

JFIF0 == <<74, 70, 73, 70, 0>>

(* The debug-only parsing of APP0 and SOF0 subscripts segdata without a length check. *)
DebugRaises(d, at) ==
    LET marker == At(d, at + 1)
        segdata == Payload(d, at)
    IN IF marker = APP0
       THEN Slice(segdata, 0, 5) = JFIF0 /\ Len(segdata) < 14
       ELSE IF marker = SOF0
       THEN IF Len(segdata) < 6 THEN TRUE
            ELSE IF At(segdata, 5) = 0 THEN FALSE
            ELSE Len(segdata) <= 6 + (At(segdata, 5) - 1) * 3 + 2
       ELSE FALSE

(* One loop iteration at cursor `at` (where jpeg_data[at] = 0xff) subscripts
   past the end of the buffer: Python raises IndexError. *)
Raises(d, at, dbg) ==
    IF at + 1 >= Len(d) THEN TRUE
    ELSE LET marker == At(d, at + 1)
         IN IF IsFixed2(marker) \/ marker = DRI THEN FALSE
             ELSE IF marker = SOS
                  THEN IF at + 4 >= Len(d) THEN TRUE
                       ELSE SOSLastRead(d, at) >= Len(d)
                  ELSE IF at + 3 >= Len(d) THEN TRUE
                       ELSE dbg /\ DebugRaises(d, at)

(* moveon without the End-Of-Image test of the Start-Of-Scan branch *)
MoveonNoEOITest(d, at) ==
    LET marker == At(d, at + 1)
    IN IF IsFixed2(marker) THEN MarkerSize
       ELSE IF marker = DRI THEN DRISize
       ELSE IF marker = SOS THEN Len(d) - at
       ELSE BE16(d, at + 2) + 2

(* Start-Of-Scan sized by its own length field, like the other markers *)
MoveonScanByLengthField(d, at) ==
    LET marker == At(d, at + 1)
    IN IF IsFixed2(marker) THEN MarkerSize
       ELSE IF marker = DRI THEN DRISize
       ELSE BE16(d, at + 2) + 2

(* moveon, for an iteration that does not raise *)
Moveon(d, at) ==
    LET marker == At(d, at + 1)
    IN IF IsFixed2(marker) THEN MarkerSize
       ELSE IF marker = DRI THEN DRISize
       ELSE IF marker = SOS
            THEN IF EndsWithEOI(d) THEN (Len(d) - at) - 2 ELSE Len(d) - at
            ELSE BE16(d, at + 2) + 2

(* segdata left as the payload slice of the length-prefixed branch *)
SegdataPayloadOnly(d, at, moveon) == Slice(d, at + 4, at + moveon)

(* the slice ending one byte early *)
SegdataOneShort(d, at, moveon) == Slice(d, at, at + moveon - 1)

(* segdata = jpeg_data[i:i+moveon] *)
Segdata(d, at, moveon) == Slice(d, at, at + moveon)

(* the cursor advanced by the payload size only *)
AdvancePayloadOnly(at, moveon) == at + moveon - 2

(* i += moveon *)
Advance(at, moveon) == at + moveon

(* the tuple of one yield; off is the cursor the segment was read at *)
Segment(d, at) ==
    [marker |-> At(d, at + 1),
     moveon |-> Moveon(d, at),
     segdata |-> Segdata(d, at, Moveon(d, at)),
     off |-> at]

-----------------------------------------------------------------------------
(* read_structure, one loop iteration per step *)

(* an iteration that reaches the yield *)
YieldStep ==
    /\ pc = "scan"
    /\ i < Len(jpeg_data)
    /\ At(jpeg_data, i) = FF
    /\ ~Raises(jpeg_data, i, debug)
    /\ segs' = Append(segs, Segment(jpeg_data, i))
    /\ i' = Advance(i, Moveon(jpeg_data, i))
    /\ UNCHANGED <<jpeg_data, debug, pc>>

(* if jpeg_data[i] != 0xff: break *)
BreakStep ==
    /\ pc = "scan"
    /\ i < Len(jpeg_data)
    /\ At(jpeg_data, i) # FF
    /\ pc' = "break"
    /\ UNCHANGED <<jpeg_data, debug, i, segs>>

(* a subscript past the end of the buffer *)
RaiseStep ==
    /\ pc = "scan"
    /\ i < Len(jpeg_data)
    /\ At(jpeg_data, i) = FF
    /\ Raises(jpeg_data, i, debug)
    /\ pc' = "IndexError"
    /\ UNCHANGED <<jpeg_data, debug, i, segs>>

(* the while condition fails *)
EndStep ==
    /\ pc = "scan"
    /\ i >= Len(jpeg_data)
    /\ pc' = "end"
    /\ UNCHANGED <<jpeg_data, debug, i, segs>>

-----------------------------------------------------------------------------
(* Inputs *)
MaxWide == 4
MaxNarrow == 7
MaxBody == 5

Wide == {0, 2, 48, SOF0, RST0, SOI, EOI, SOS, DRI, APP1, FF}
Narrow == {0, EOI, SOS, FF}
Body == {0, 2, EOI, SOS, APP1, FF}

SeqsUpTo(S, n) == UNION {[1..k -> S] : k \in 0..n}

(* a scan header without components, and what may follow it in a file of
   several scans: entropy-coded bytes, tables, metadata, the next scan *)
ScanHeader == <<FF, SOS, 0, 3, 0>>
AfterScan ==
    {<<>>, <<17>>, ScanHeader, <<FF, DQT, 0, 2>>, <<FF, APP1, 0, 2>>,
     <<17, FF, DQT, 0, 2>> \o ScanHeader}
MultiScanInputs ==
    {h \o ScanHeader \o m \o t :
        h \in {<<>>, <<FF, SOI>>}, m \in AfterScan, t \in {<<>>, <<FF, EOI>>}}

(* short buffers over many marker bytes, longer ones over few, buffers
   framed by Start-Of-Image and End-Of-Image, and files of several scans *)
ScanInputs ==
    SeqsUpTo(Wide, MaxWide)
    \cup SeqsUpTo(Narrow, MaxNarrow)
    \cup {<<FF, SOI>> \o b \o <<FF, EOI>> : b \in SeqsUpTo(Body, MaxBody)}
    \cup MultiScanInputs

Idle == [active |-> FALSE]

InitScan ==
    /\ jpeg_data \in ScanInputs
    /\ debug \in BOOLEAN
    /\ i = 0
    /\ segs = <<>>
    /\ pc = "scan"
    /\ typ = 0 /\ qt = <<0, 0>> /\ im = <<0, 0>>
    /\ validate = FALSE /\ validate_maxtries = 0
    /\ tries = 0 /\ ret = <<>> /\ retdata = <<>> /\ mpc = "idle"
    /\ fl = Idle /\ decoded = 0

YieldSegment == YieldStep /\ UNCHANGED moshvars
Break == BreakStep /\ UNCHANGED moshvars
RaiseIndexError == RaiseStep /\ UNCHANGED moshvars
EndOfData == EndStep /\ UNCHANGED moshvars

Init == InitScan

Next == YieldSegment \/ Break \/ RaiseIndexError \/ EndOfData

Spec == Init /\ [][Next]_vars

-----------------------------------------------------------------------------
(* mosh_jpeg_data and its local function flipbits *)

QuantSkip == 4
ImageSkip == 20
BitsPerByte == 8

RECURSIVE Pow2(_)
Pow2(n) == IF n = 0 THEN 1 ELSE 2 * Pow2(n - 1)

(* b ^ 2**bitnum on a byte *)
XorBit(b, bitnum) ==
    IF (b \div Pow2(bitnum)) % 2 = 1 THEN b - Pow2(bitnum) ELSE b + Pow2(bitnum)

(* typ & 0x01, typ & 0x02 *)
QuantFlag(t) == t % 2 = 1
ImageFlag(t) == (t \div 2) % 2 = 1

(* the strip test starting one marker late *)
DispositionStripsFromAPP2(marker, t) ==
    IF marker = DQT THEN (IF QuantFlag(t) THEN "corrupt" ELSE "keep")
    ELSE IF marker = SOS THEN (IF ImageFlag(t) THEN "corrupt" ELSE "keep")
    ELSE IF marker > APP1 /\ marker <= APP15 THEN "strip"
    ELSE "keep"

(* the typ tests left out: both kinds of segment are always corrupted *)
DispositionIgnoresTyp(marker, t) ==
    IF marker = DQT THEN "corrupt"
    ELSE IF marker = SOS THEN "corrupt"
    ELSE IF marker >= APP1 /\ marker <= APP15 THEN "strip"
    ELSE "keep"

(* What the for-loop body does with a segment of this marker:
   corrupt it with flipbits, append it unchanged, or drop it. *)
Disposition(marker, t) ==
    IF marker = DQT THEN (IF QuantFlag(t) THEN "corrupt" ELSE "keep")
    ELSE IF marker = SOS THEN (IF ImageFlag(t) THEN "corrupt" ELSE "keep")
    ELSE IF marker >= APP1 /\ marker <= APP15 THEN "strip"
    ELSE "keep"

(* the skipfirstbytes argument of the two flipbits calls *)
SkipFor(marker) == IF marker = DQT THEN QuantSkip ELSE ImageSkip

(* the (howmanytimes, howmanybits) argument of the two flipbits calls *)
IntensityFor(marker) == IF marker = DQT THEN qt ELSE im

(* mask = list(index for index in mask if index>skipfirstbytes and index<len(data));
   None and the empty list are both the empty set here (both are falsy) *)
FilterMask(mask, skipfirstbytes, data) ==
    {index \in mask : index > skipfirstbytes /\ index < Len(data)}

(* randint from index 0, skipfirstbytes not used *)
TargetDomainIgnoresSkip(mask, skipfirstbytes, data) ==
    IF mask # {} THEN mask ELSE 0..(Len(data) - 1)

(* the indices a round may pick: random.choice(mask), or
   random.randint(skipfirstbytes, len(data)-1), which includes both ends *)
TargetDomain(mask, skipfirstbytes, data) ==
    IF mask # {} THEN mask ELSE skipfirstbytes..(Len(data) - 1)

(* the frame of a flipbits call; seg is the yielded tuple it was called for *)
FlipFrame(seg, intensity, skipfirstbytes, mask) ==
    [active |-> TRUE,
     seg |-> seg,
     data |-> seg.segdata,
     retdata |-> seg.segdata,
     howmanytimes |-> intensity[1],
     howmanybits |-> intensity[2],
     skipfirstbytes |-> skipfirstbytes,
     mask |-> FilterMask(mask, skipfirstbytes, seg.segdata),
     targetbyte |-> 0,
     bitsleft |-> 0]

(* what ret holds for a segment: its bytes, and the offset it was read at *)
Kept(seg, bytes) == [off |-> seg.off, marker |-> seg.marker, bytes |-> bytes]

(* b''.join(ret) *)
Join(r) == Concat([k \in 1..Len(r) |-> r[k].bytes])

(* while tries > 0: tries -= 1; ret = []; the for statement calls read_structure *)
BeginTry ==
    /\ mpc = "while"
    /\ tries > 0
    /\ tries' = tries - 1
    /\ ret' = <<>>
    /\ i' = 0 /\ segs' = <<>> /\ pc' = "scan"
    /\ mpc' = "for"
    /\ UNCHANGED <<jpeg_data, debug, typ, qt, im, validate, validate_maxtries,
                   retdata, fl, decoded>>

(* the while condition fails: raise ValueError("Didn't get valid data ...") *)
GiveUp ==
    /\ mpc = "while"
    /\ tries <= 0
    /\ mpc' = "ValueError"
    /\ UNCHANGED <<scanvars, typ, qt, im, validate, validate_maxtries,
                   tries, ret, retdata, fl, decoded>>

(* the generator yields a segment that is appended unchanged *)
KeepSegment ==
    /\ mpc = "for"
    /\ YieldStep
    /\ Disposition(Segment(jpeg_data, i).marker, typ) = "keep"
    /\ ret' = Append(ret, Kept(Segment(jpeg_data, i), Segment(jpeg_data, i).segdata))
    /\ UNCHANGED <<typ, qt, im, validate, validate_maxtries, tries, retdata, mpc,
                   fl, decoded>>

(* the generator yields an APP1..APP15 segment: pass *)
StripSegment ==
    /\ mpc = "for"
    /\ YieldStep
    /\ Disposition(Segment(jpeg_data, i).marker, typ) = "strip"
    /\ UNCHANGED moshvars

(* the generator yields a segment that is handed to flipbits *)
CorruptSegment ==
    /\ mpc = "for"
    /\ YieldStep
    /\ Disposition(Segment(jpeg_data, i).marker, typ) = "corrupt"
    /\ LET seg == Segment(jpeg_data, i)
       IN fl' = FlipFrame(seg, IntensityFor(seg.marker), SkipFor(seg.marker), {})
    /\ mpc' = "flipbits"
    /\ UNCHANGED <<typ, qt, im, validate, validate_maxtries, tries, ret, retdata,
                   decoded>>

(* one round starts: the target byte is picked *)
FlipPick ==
    /\ mpc = "flipbits"
    /\ fl.bitsleft = 0
    /\ fl.howmanytimes > 0
    /\ \E targetbyte \in TargetDomain(fl.mask, fl.skipfirstbytes, fl.data) :
          fl' = IF fl.howmanybits > 0
                THEN [fl EXCEPT !.targetbyte = targetbyte, !.bitsleft = fl.howmanybits]
                ELSE [fl EXCEPT !.targetbyte = targetbyte,
                                !.howmanytimes = fl.howmanytimes - 1]
    /\ UNCHANGED <<scanvars, typ, qt, im, validate, validate_maxtries, tries, ret,
                   retdata, mpc, decoded>>

(* random.randint(skipfirstbytes, len(data)-1) on an empty range raises ValueError *)
FlipEmptyRange ==
    /\ mpc = "flipbits"
    /\ fl.bitsleft = 0
    /\ fl.howmanytimes > 0
    /\ TargetDomain(fl.mask, fl.skipfirstbytes, fl.data) = {}
    /\ mpc' = "EmptyRangeError"
    /\ UNCHANGED <<scanvars, typ, qt, im, validate, validate_maxtries, tries, ret,
                   retdata, fl, decoded>>

(* retdata[targetbyte] ^= 2**bitnum; after the last bit of a round, howmanytimes -= 1 *)
FlipBit ==
    /\ mpc = "flipbits"
    /\ fl.bitsleft > 0
    /\ \E bitnum \in 0..(BitsPerByte - 1) :
          fl' = [fl EXCEPT
                   !.retdata[fl.targetbyte + 1] = XorBit(@, bitnum),
                   !.bitsleft = @ - 1,
                   !.howmanytimes = IF fl.bitsleft = 1 THEN @ - 1 ELSE @]
    /\ UNCHANGED <<scanvars, typ, qt, im, validate, validate_maxtries, tries, ret,
                   retdata, mpc, decoded>>

(* return bytes(retdata); ret.append(corrupted_segdata) *)
FlipReturn ==
    /\ mpc = "flipbits"
    /\ fl.bitsleft = 0
    /\ fl.howmanytimes <= 0
    /\ ret' = Append(ret, Kept(fl.seg, fl.retdata))
    /\ fl' = Idle
    /\ mpc' = "for"
    /\ UNCHANGED <<scanvars, typ, qt, im, validate, validate_maxtries, tries,
                   retdata, decoded>>

(* the generator is exhausted: retdata = b''.join(ret); if not validate: return retdata *)
JoinCandidate ==
    /\ mpc = "for"
    /\ (BreakStep \/ EndStep)
    /\ retdata' = Join(ret)
    /\ mpc' = IF validate THEN "validate" ELSE "returned"
    /\ UNCHANGED <<typ, qt, im, validate, validate_maxtries, tries, ret, fl, decoded>>

(* the generator raises IndexError, which nothing catches *)
ScanError ==
    /\ mpc = "for"
    /\ RaiseStep
    /\ mpc' = "IndexError"
    /\ UNCHANGED <<typ, qt, im, validate, validate_maxtries, tries, ret, retdata,
                   fl, decoded>>

(* Image.open(...).load() does not raise: return retdata *)
DecodeAccepts ==
    /\ mpc = "validate"
    /\ decoded' = decoded + 1
    /\ mpc' = "returned"
    /\ UNCHANGED <<scanvars, typ, qt, im, validate, validate_maxtries, tries, ret,
                   retdata, fl>>

(* Image.open(...).load() raises IOError: continue.  Nothing reads the rejected
   candidate again (the next join overwrites it), so it is forgotten here. *)
DecodeRejects ==
    /\ mpc = "validate"
    /\ decoded' = decoded + 1
    /\ retdata' = <<>>
    /\ mpc' = "while"
    /\ UNCHANGED <<scanvars, typ, qt, im, validate, validate_maxtries, tries, ret, fl>>

(* Image.open(...).load() raises something that is no IOError: it propagates *)
DecodeOtherError ==
    /\ mpc = "validate"
    /\ decoded' = decoded + 1
    /\ mpc' = "DecoderError"
    /\ UNCHANGED <<scanvars, typ, qt, im, validate, validate_maxtries, tries, ret,
                   retdata, fl>>

(* Inputs of mosh_jpeg_data *)
MaxTries == 2

SOIseg == <<FF, SOI>>
EOIseg == <<FF, EOI>>
APP0seg == <<FF, APP0, 0, 2>>
APP1seg == <<FF, APP1, 0, 3, 7>>
(* quantization segments: with no table at all, with a precision byte only,
   and with a precision byte and one table value *)
DQTempty == <<FF, DQT, 0, 2>>
DQTcut == <<FF, DQT, 0, 3, 0>>
DQTshort == <<FF, DQT, 0, 4, 0, 16>>
(* a one-component scan header, then entropy-coded bytes: one byte, or eleven
   of which four look like an APP1 segment *)
SOShead == <<FF, SOS, 0, 8, 1, 1, 0, 0, 63, 0>>
SOSshort == SOShead \o <<17>>
SOSlong == SOShead \o <<17, FF, APP1, 0, 2, 51, 68, 85, 102, 119, 136>>

(* files cut or damaged in various places, and whole files *)
MoshInputs ==
    {SOIseg \o a \o q \o s \o t :
        a \in {<<>>, APP1seg},
        q \in {<<>>, DQTempty, DQTcut},
        s \in {<<>>, SOSshort},
        t \in {<<>>, EOIseg, <<FF>>, <<0>>}}
    \cup {<<>>,
          SOIseg \o APP0seg \o APP1seg \o DQTshort \o SOSlong \o EOIseg,
          SOIseg \o DQTshort \o SOSlong,
          APP1seg \o SOSlong \o EOIseg}

Intensities == {<<0, 0>>, <<1, 2>>, <<2, 1>>}

InitMosh ==
    /\ jpeg_data \in MoshInputs
    /\ debug = FALSE
    /\ typ \in 0..3
    /\ qt \in Intensities
    /\ im \in Intensities
    /\ validate \in BOOLEAN
    /\ validate_maxtries \in 0..MaxTries
    /\ tries = validate_maxtries
    /\ i = 0 /\ segs = <<>> /\ pc = "idle"
    /\ ret = <<>> /\ retdata = <<>> /\ mpc = "while"
    /\ fl = Idle /\ decoded = 0

NextMosh ==
    \/ BeginTry
    \/ GiveUp
    \/ KeepSegment
    \/ StripSegment
    \/ CorruptSegment
    \/ FlipPick
    \/ FlipEmptyRange
    \/ FlipBit
    \/ FlipReturn
    \/ JoinCandidate
    \/ ScanError
    \/ DecodeAccepts
    \/ DecodeRejects
    \/ DecodeOtherError

SpecMosh == InitMosh /\ [][NextMosh]_vars

-----------------------------------------------------------------------------
(* Properties of read_structure *)

StartsWithSOI(d) == Len(d) >= 2 /\ d[1] = 255 /\ d[2] = 216

(* the bytes of all segments yielded so far, joined in emission order *)
Reassembled == Concat([k \in 1..Len(segs) |-> segs[k].segdata])

IsPrefix(p, d) == Len(p) <= Len(d) /\ SubSeq(d, 1, Len(p)) = p

ScanOver == pc \in {"end", "break", "IndexError"}

(* C1 as stated: once the scan of a buffer that begins with FF D8 and ends
   with FF D9 is over without an exception, the joined segments equal the buffer. *)
C1_RoundTripAnyFramedBuffer ==
    (pc \in {"end", "break"} /\ StartsWithSOI(jpeg_data) /\ EndsWithEOI(jpeg_data))
        => Reassembled = jpeg_data

(* C1, amended: for a buffer that begins with FF D8 and ends with FF D9 the
   joined segments are always a prefix of the buffer, and once the scan is
   over they equal the whole buffer exactly when the scan ran until the cursor
   reached the buffer end (it was not stopped at a segment start that is not
   0xFF, nor by a subscript past the end). *)
C1_RoundTrip ==
    (StartsWithSOI(jpeg_data) /\ EndsWithEOI(jpeg_data)) =>
        /\ IsPrefix(Reassembled, jpeg_data)
        /\ ScanOver => ((Reassembled = jpeg_data) <=> (pc = "end"))

C1_Witness ==
    /\ pc = "end"
    /\ StartsWithSOI(jpeg_data) /\ EndsWithEOI(jpeg_data)
    /\ Len(segs) = 3
    /\ segs[2].marker = 218
    /\ Reassembled = jpeg_data

(* C2: the first segment starts at offset 0, and each further segment starts
   at the previous segment's offset plus its reported length, which is a
   strictly larger offset; the cursor stands after the last segment. *)
C2_MonotonicCoverage ==
    /\ Len(segs) >= 1 => segs[1].off = 0
    /\ \A k \in 1..(Len(segs) - 1) :
          /\ segs[k + 1].off = segs[k].off + segs[k].moveon
          /\ segs[k + 1].off > segs[k].off
    /\ Len(segs) >= 1 => i = segs[Len(segs)].off + segs[Len(segs)].moveon

C2_Witness == Len(segs) >= 3 /\ segs[3].off > segs[2].off + 2

(* C3 as stated: the scan never raises, and every segment's bytes are the
   declared length clamped to the bytes that remain. *)
C3_GracefulDegradation ==
    /\ pc # "IndexError"
    /\ \A k \in 1..Len(segs) :
          Len(segs[k].segdata) = Min(segs[k].moveon, Len(jpeg_data) - segs[k].off)

(* C4 as stated: every yielded segment reports the length of its bytes, and
   its bytes start with 0xFF and the marker byte. *)
C4_LengthIsByteCount ==
    \A k \in 1..Len(segs) :
        /\ segs[k].moveon = Len(segs[k].segdata)
        /\ segs[k].segdata[1] = 255
        /\ segs[k].segdata[2] = segs[k].marker

(* C4, amended: the number of bytes of every yielded segment is its reported
   length clamped to the bytes that remain from its offset (so the two are
   equal whenever the reported length fits in the buffer), and the bytes start
   with 0xFF and the marker byte. *)
C4_LengthClamped ==
    \A k \in 1..Len(segs) :
        /\ Len(segs[k].segdata) = Min(segs[k].moveon, Len(jpeg_data) - segs[k].off)
        /\ segs[k].segdata[1] = 255
        /\ segs[k].segdata[2] = segs[k].marker

C4_Witness ==
    /\ Len(segs) = 2
    /\ segs[1].moveon = Len(segs[1].segdata)
    /\ segs[2].moveon > Len(segs[2].segdata)

(* C5: the reported length of a segment read at offset `off` is 2 for D8, D9,
   D0..D7 and 30..3F, 6 for DD, for DA the distance to the trailing FF D9 if
   the buffer ends with one and to the buffer end otherwise, and for every
   other marker 2 plus the big-endian 16-bit value after the marker. *)
C5_SegmentSizing ==
    \A k \in 1..Len(segs) :
        LET s == segs[k]
            m == jpeg_data[s.off + 2]
            n == Len(jpeg_data)
        IN /\ s.marker = m
           /\ IF m \in ({216, 217} \cup (208..215) \cup (48..63)) THEN s.moveon = 2
              ELSE IF m = 221 THEN s.moveon = 6
              ELSE IF m = 218
                   THEN IF n >= 2 /\ jpeg_data[n - 1] = 255 /\ jpeg_data[n] = 217
                        THEN s.moveon = n - s.off - 2
                        ELSE s.moveon = n - s.off
              ELSE s.moveon = 2 + 256 * jpeg_data[s.off + 3] + jpeg_data[s.off + 4]

C5_Witness ==
    /\ pc = "end"
    /\ Len(segs) = 2
    /\ segs[1].marker = 218 /\ segs[1].moveon = Len(jpeg_data) - 2
    /\ segs[2].marker = 217 /\ segs[2].off = Len(jpeg_data) - 2

-----------------------------------------------------------------------------
(* Properties of mosh_jpeg_data *)

IsAppN(m) == m >= 225 /\ m <= 239

(* input offset p lies in a segment that ret holds *)
InOutput(p) == \E r \in 1..Len(ret) : ret[r].off <= p /\ p < ret[r].off + Len(ret[r].bytes)

(* C6 as stated: wherever FF is followed by E1..EF in the input, those bytes
   are not part of the returned output. *)
C6_NoAppMarkerAnywhere ==
    mpc = "returned" =>
        \A p \in 0..(Len(jpeg_data) - 2) :
            (jpeg_data[p + 1] = 255 /\ IsAppN(jpeg_data[p + 2]))
                => (~InOutput(p) /\ ~InOutput(p + 1))

(* C6, amended: for every segment that read_structure yields with a marker in
   E1..EF, none of its bytes are in the output, for every typ; the output is
   the join of the segments kept. *)
C6_YieldedAppSegmentsStripped ==
    /\ \A k \in 1..Len(segs) :
          IsAppN(segs[k].marker) =>
              \A p \in segs[k].off..(segs[k].off + Len(segs[k].segdata) - 1) : ~InOutput(p)
    /\ mpc = "returned" => retdata = Join(ret)

C6_Witness ==
    /\ mpc = "returned"
    /\ typ = 3
    /\ Len(segs) = 6
    /\ segs[3].marker = 225
    /\ Len(ret) = 5
    /\ Len(retdata) = Len(jpeg_data) - Len(segs[3].segdata)

NotAppN(s) == ~IsAppN(s.marker)

(* the segments yielded, without those of markers E1..EF, joined in order *)
ReassembledWithoutAppN ==
    LET kept == SelectSeq(segs, NotAppN)
    IN Concat([k \in 1..Len(kept) |-> kept[k].segdata])

(* C7: with both flags of typ clear and validate false, what is returned is
   the join of every yielded segment whose marker is not in E1..EF. *)
C7_NoOp ==
    (mpc = "returned" /\ ~validate /\ typ % 2 = 0 /\ (typ \div 2) % 2 = 0)
        => retdata = ReassembledWithoutAppN

C7_Witness ==
    /\ mpc = "returned" /\ ~validate /\ typ = 0
    /\ qt = <<2, 1>> /\ im = <<2, 1>>
    /\ Len(segs) = 6
    /\ segs[2].marker = 224 /\ segs[3].marker = 225
    /\ segs[4].marker = 219 /\ segs[5].marker = 218
    /\ retdata = ReassembledWithoutAppN

(* the indices of a quantization segment that are no table value: marker,
   length field, and the byte before each run of 64 values *)
NotTableValue(k) == k \in {0, 1, 2, 3} \/ (k >= 4 /\ (k - 4) % 65 = 0)

(* C8 as stated: while and after flipbits works on a quantization segment,
   the marker, the length field and the precision bytes are as in the input. *)
C8_OnlyTableValuesChange ==
    (fl.active /\ fl.seg.marker = 219) =>
        \A k \in 0..(Len(fl.data) - 1) :
            NotTableValue(k) => fl.retdata[k + 1] = fl.data[k + 1]

(* the yielded segment that an entry of ret came from *)
SourceOf(r) == CHOOSE k \in 1..Len(segs) : segs[k].off = r.off

(* C9: flipbits keeps the length and the first skipfirstbytes bytes (indices
   0..skipfirstbytes-1) of its input, in every round and for every choice, and
   a Start-Of-Scan segment in ret has the length and the first 20 bytes of the
   segment yielded. *)
C9_SkipRespected ==
    /\ fl.active =>
          /\ Len(fl.retdata) = Len(fl.data)
          /\ \A k \in 0..(Min(fl.skipfirstbytes, Len(fl.data)) - 1) :
                fl.retdata[k + 1] = fl.data[k + 1]
    /\ \A r \in 1..Len(ret) :
          ret[r].marker = 218 =>
              LET src == segs[SourceOf(ret[r])].segdata
              IN /\ Len(ret[r].bytes) = Len(src)
                 /\ SubSeq(ret[r].bytes, 1, Min(20, Len(src))) = SubSeq(src, 1, Min(20, Len(src)))

C9_Witness ==
    /\ mpc = "returned"
    /\ (typ \div 2) % 2 = 1
    /\ \E r \in 1..Len(ret) :
          /\ ret[r].marker = 218
          /\ Len(ret[r].bytes) > 20
          /\ ret[r].bytes # segs[SourceOf(ret[r])].segdata

(* C10 as stated: with validate false there is exactly one attempt, whatever
   validate_maxtries is; the decoder is never called and the retry-budget
   ValueError is never raised. *)
C10_ValidateFalseOneAttempt ==
    ~validate =>
        /\ mpc # "ValueError"
        /\ decoded = 0
        /\ mpc # "while" => validate_maxtries - tries = 1

(* C11 as stated: with validate true no more than validate_maxtries attempts
   are made, each candidate is handed to the decoder once, what is returned
   is a candidate the decoder accepted, the retry-budget ValueError is raised
   only after validate_maxtries rejected candidates, and a decode failure of
   any cause counts as a rejection (it never ends the call with another error). *)
C11_BoundedRetry ==
    validate =>
        /\ tries >= 0
        /\ decoded <= validate_maxtries - tries
        /\ mpc = "returned" => (decoded >= 1 /\ retdata = Join(ret))
        /\ mpc = "ValueError" => (tries = 0 /\ decoded = validate_maxtries)
        /\ mpc # "DecoderError"

-----------------------------------------------------------------------------
(* C12: a yielded Start-Of-Scan (DA) segment is the last or the last but one
   segment of the run, so there is at most one; the only segment that can
   follow it is the End-Of-Image segment made of the buffer's last two bytes;
   hence no segment yielded after it has a DB, E0..EF or DA marker, and after
   it the cursor is at the trailing End-Of-Image marker or at the buffer end. *)
C12_ScanEndsAtSOS ==
    \A k \in 1..Len(segs) :
        segs[k].marker = 218 =>
            /\ k >= Len(segs) - 1
            /\ \A j \in 1..Len(segs) : segs[j].marker = 218 => j = k
            /\ \A j \in (k + 1)..Len(segs) :
                  /\ segs[j].marker = 217
                  /\ segs[j].moveon = 2
                  /\ segs[j].off = Len(jpeg_data) - 2
                  /\ segs[j].segdata = <<255, 217>>
                  /\ i = Len(jpeg_data)
            /\ i >= Len(jpeg_data) - 2

(* a marker of a table, of metadata or of a scan lies after the yielded
   Start-Of-Scan marker, and the run is over with the End-Of-Image segment
   as the only one after the scan *)
C12_Witness ==
    /\ pc = "end"
    /\ Len(segs) >= 2
    /\ segs[Len(segs) - 1].marker = 218
    /\ segs[Len(segs)].marker = 217
    /\ \E p \in (segs[Len(segs) - 1].off + 5)..(Len(jpeg_data) - 4) :
          /\ jpeg_data[p + 1] = 255
          /\ jpeg_data[p + 2] \in {218, 219, 225}

====
